---- MODULE Spec2Model ----
(***************************************************************************)
(* Timing alignment and audio reconstruction of the video translation      *)
(* pipeline (src/video_translation_pipeline.py, src/video_processor.py).   *)
(*                                                                         *)
(* Audio is modelled by its length in milliseconds, which is what pydub's  *)
(* len(AudioSegment) returns and what every decision of the code reads.    *)
(* A track under construction is a sequence of items, each with the onset  *)
(* at which `combined += x` put it.  Utterance timestamps are held in      *)
(* milliseconds, i.e. the values int(float(seg["start"]) * 1000).          *)
(***************************************************************************)
EXTENDS Integers, Sequences, FiniteSets, TLC

VARIABLES
    mode,              \* which entry point runs: "long", "short", "fit", "prosody"
    pc,                \* position inside the entry point
    segments,          \* Whisper utterance list [start, end, text]
    prosody_info,      \* [ok, duration (ms), nonsilent_ranges]; ok = FALSE is {}
    i,                 \* window index of the chunk loop
    segment_files,     \* outputs of the windows that succeeded, in append order
    relevant_segments, \* utterances selected for the current window
    idx,               \* position of the alignment loop (1-based)
    combined,          \* the track the alignment loop is building
    current_ms,        \* the alignment loop's cursor
    prev_en_terminal,  \* "unset", "terminal" or "open"
    translated_len,    \* short path: length of temp_translated_audio.wav
    final_len,         \* length of the audio at final_audio_path (-1: none)
    probed_ms,         \* ffprobe's answer at the prosody step (0: None)
    mixes,             \* number of bed mixes performed
    result,            \* "running", "true" or "false": the entry point's return value
    hist,              \* observations of the run (windows attempted, selections)
    fit,               \* one call of _stretch_wav_to_duration
    pros,              \* one call of _apply_prosody_to_audio
    mt                 \* the object's translation model and a call of _translate_text_ru_en

vars == << mode, pc, segments, prosody_info, i, segment_files,
           relevant_segments, idx, combined, current_ms, prev_en_terminal,
           translated_len, final_len, probed_ms, mixes, result, hist, fit, pros, mt >>

pipeVars == << mode, pc, segments, prosody_info, i, segment_files,
               relevant_segments, idx, combined, current_ms, prev_en_terminal,
               translated_len, final_len, probed_ms, mixes, result, hist >>

----------------------------------------------------------------------------
(* Arithmetic helpers *)

Abs(x) == IF x < 0 THEN 0 - x ELSE x

Min(a, b) == IF a <= b THEN a ELSE b

Max(a, b) == IF a >= b THEN a ELSE b

RECURSIVE SumLens(_)
SumLens(s) == IF s = << >> THEN 0 ELSE s[1].len + SumLens(Tail(s))

----------------------------------------------------------------------------
(* Program constants *)

TOLERANCE_MS == 40

MIN_ADDITIONAL_MS == 50

MIN_PAUSE_ADD_MS == 30

MAX_PAUSE_ADD_MS == 150

MAX_QUIET_PAUSE_MS == 200

LEADING_SILENCE_MS == 50

PAUSE_THRESHOLD_MS == 50

TRUNCATE_TOLERANCE_MS == 50

MAX_GAP_MS == 400

CONTINUATION_PAUSE_MS == 120

MAX_PAUSE_MS == 2000

----------------------------------------------------------------------------
(* pydub: audio[a:b] in milliseconds on a clip of length L clamps both ends. *)

SliceLen(L, a, b) == Max(0, Min(b, L) - Min(a, L))

----------------------------------------------------------------------------
(* _add_pauses_between_words.  quiet is the list of quiet regions found by  *)
(* the energy scan, as [s, e] index pairs into the sample array; the code   *)
(* uses these indices both as pause lengths and as millisecond slice        *)
(* bounds.  The result is [ok, written, len, same].                         *)

AvgPauseLength(additional_time, n) ==
    Max(MIN_PAUSE_ADD_MS, Min(additional_time \div n, MAX_PAUSE_ADD_MS))

RECURSIVE PausedLen(_, _, _, _, _)
PausedLen(L, quiet, k, last_end, avg) ==
    IF k > Len(quiet)
    THEN IF last_end < L THEN SliceLen(L, last_end, L) ELSE 0
    ELSE (IF quiet[k].s > last_end THEN SliceLen(L, last_end, quiet[k].s) ELSE 0)
         + Min(quiet[k].e - quiet[k].s + avg, MAX_QUIET_PAUSE_MS)
         + PausedLen(L, quiet, k + 1, quiet[k].e, avg)

AddPausesBetweenWords(cur, target, quiet, throws) ==
    LET additional_time == target - cur IN
    IF throws
    THEN [ok |-> FALSE, written |-> FALSE, len |-> 0, same |-> FALSE]
    ELSE IF additional_time < MIN_ADDITIONAL_MS
    THEN [ok |-> TRUE, written |-> TRUE, len |-> cur, same |-> TRUE]
    ELSE IF quiet # << >>
    THEN LET new_len == PausedLen(cur, quiet, 1, 0,
                                  AvgPauseLength(additional_time, Len(quiet)))
         IN [ok |-> TRUE, written |-> TRUE,
             len |-> IF new_len < target THEN target ELSE new_len,
             same |-> FALSE]
    ELSE [ok |-> TRUE, written |-> TRUE, len |-> cur + (target - cur), same |-> FALSE]

(* _stretch_wav_to_duration.  fail1 is the exception, if any, raised in the *)
(* try block by this function's own read or export ("none", "read",         *)
(* "export"); fail2 says whether the handler's own read/export raises too.  *)

\* Variant that cuts a clip longer than the target down to the target.
StretchCompressing(cur, target, quiet, fail1, fail2, throws) ==
    [ok |-> TRUE, written |-> TRUE, len |-> Min(cur, target), same |-> cur <= target]

StretchWavToDuration(cur, target, quiet, fail1, fail2, throws) ==
    LET original == [ok |-> TRUE, written |-> TRUE, len |-> cur, same |-> TRUE]
        failed   == [ok |-> FALSE, written |-> FALSE, len |-> 0, same |-> FALSE]
        handler  == IF fail2 THEN failed ELSE original
    IN
    IF fail1 = "read" THEN handler
    ELSE IF cur = 0 THEN failed
    ELSE IF Abs(cur - target) <= TOLERANCE_MS
    THEN IF fail1 = "export" THEN handler ELSE original
    ELSE IF cur < target
    THEN AddPausesBetweenWords(cur, target, quiet, throws)
    ELSE IF fail1 = "export" THEN handler ELSE original

----------------------------------------------------------------------------
(* _apply_prosody_to_audio: the length of the track it writes. *)

RECURSIVE TotalPauseTime(_, _)
TotalPauseTime(ranges, k) ==
    IF k >= Len(ranges) THEN 0
    ELSE LET pause_duration == ranges[k + 1][1] - ranges[k][2] IN
         (IF pause_duration > PAUSE_THRESHOLD_MS THEN pause_duration ELSE 0)
         + TotalPauseTime(ranges, k + 1)

OriginalMs(duration_ms, has_video, probed) ==
    IF has_video /\ probed # 0 THEN probed ELSE duration_ms

WithLeadingSilence(len, ranges) ==
    IF ranges # << >> /\ ranges[1][1] > LEADING_SILENCE_MS
    THEN ranges[1][1] + len ELSE len

WithTrailingPause(len, ranges) ==
    IF Len(ranges) > 1 /\ TotalPauseTime(ranges, 1) > 0
    THEN len + (TotalPauseTime(ranges, 1) \div Max(1, Len(ranges) - 1))
    ELSE len

\* Variants of FitToOriginal with one of its two corrections left out.
FitToOriginalNoTruncate(cur_ms, original_ms) ==
    IF original_ms > 0 /\ cur_ms < original_ms THEN original_ms ELSE cur_ms

FitToOriginalNoPad(cur_ms, original_ms) ==
    IF original_ms > 0 /\ cur_ms > original_ms + TRUNCATE_TOLERANCE_MS
    THEN original_ms ELSE cur_ms

FitToOriginal(cur_ms, original_ms) ==
    IF original_ms > 0
    THEN IF cur_ms < original_ms THEN original_ms
         ELSE IF cur_ms > original_ms + TRUNCATE_TOLERANCE_MS THEN original_ms
         ELSE cur_ms
    ELSE cur_ms

ApplyProsodyToAudio(len, duration_ms, ranges, has_video, probed) ==
    FitToOriginal(WithTrailingPause(WithLeadingSilence(len, ranges), ranges),
                  OriginalMs(duration_ms, has_video, probed))

----------------------------------------------------------------------------
(* Texts are sequences of characters. *)

Whitespace == {" "}

TerminalChars == {".", "!", "?", "ellipsis", ":"}

RECURSIVE RStrip(_)
RStrip(t) ==
    IF t # << >> /\ t[Len(t)] \in Whitespace THEN RStrip(SubSeq(t, 1, Len(t) - 1)) ELSE t

RECURSIVE LStrip(_)
LStrip(t) == IF t # << >> /\ t[1] \in Whitespace THEN LStrip(Tail(t)) ELSE t

Strip(t) == LStrip(RStrip(t))

\* bool(re.search(r"[\.\!\?…:]\s*$", text_en))
EndsTerminal(t) ==
    LET r == RStrip(t) IN
    IF r # << >> /\ r[Len(r)] \in TerminalChars THEN "terminal" ELSE "open"

----------------------------------------------------------------------------
(* Bounds and the inputs the collaborators may deliver. *)

\* end_ms <= start_ms or not text_ru: the loops pass over the utterance
Malformed(seg) == seg.end <= seg.start \/ Strip(seg.text) = << >>

\* A list holds at most MaxUtt well-formed utterances and at most one that
\* the loops pass over.
MaxUtt == 2

Candidates ==
    << [start |-> 0,     end |-> 2000,  text |-> << "r" >>],
       [start |-> 2500,  end |-> 2500,  text |-> << "r" >>],
       [start |-> 3000,  end |-> 5000,  text |-> << "r" >>],
       [start |-> 6000,  end |-> 8000,  text |-> << " " >>],
       [start |-> 29000, end |-> 31000, text |-> << "r" >>],
       [start |-> 31000, end |-> 33000, text |-> << "r" >>] >>

RECURSIVE PickInOrder(_, _)
PickInOrder(S, k) ==
    IF k > Len(Candidates) THEN << >>
    ELSE (IF k \in S THEN << Candidates[k] >> ELSE << >>) \o PickInOrder(S, k + 1)

UtteranceLists ==
    { PickInOrder(S, 1) :
        S \in { X \in SUBSET (1 .. Len(Candidates)) :
                  /\ Cardinality({ k \in X : ~Malformed(Candidates[k]) }) <= MaxUtt
                  /\ \A j \in X, k \in X :
                       (Malformed(Candidates[j]) /\ Malformed(Candidates[k])) => j = k } }

Translations == { << >>, << "a" >>, << "a", "." >> }

ClipDurations == { 1500, 2300, 3000 }

RangeLists ==
    { << >>,
      << << 100, 5000 >>, << 5600, 9000 >> >>,
      << << 0, 3000 >>, << 3040, 9000 >> >> }

NoProsody == [ok |-> FALSE, duration |-> 0, nonsilent_ranges |-> << >>]

ProsodyInfos ==
    { NoProsody }
    \cup { [ok |-> TRUE, duration |-> d, nonsilent_ranges |-> r] :
            d \in { 20000, 60000 }, r \in RangeLists }

ProbedDurations == { 0, 50000 }

\* len(AudioSegment.from_wav(audio_path)) at the bed mix
OriginalLens == { 20000, 60000 }

----------------------------------------------------------------------------
(* Tracks: `combined += x` appends x at the current end of the track. *)

TrackLen(track) ==
    IF track = << >> THEN 0 ELSE track[Len(track)].onset + track[Len(track)].len

\* AppendOverlaid is the variant that lays x over the last item instead.
\* An item: kind "silence" or "clip", its onset and length in the track, the
\* index utt of the utterance it belongs to and, for a clip, the duration
\* measured on the synthesizer's file (len(seg_audio)).
AppendOverlaid(track, kind, len, utt, measured) ==
    Append(track, [kind |-> kind,
                   onset |-> IF track = << >> THEN 0 ELSE track[Len(track)].onset,
                   len |-> len, utt |-> utt, measured |-> measured])

AppendAudio(track, kind, len, utt, measured) ==
    Append(track, [kind |-> kind, onset |-> TrackLen(track), len |-> len,
                   utt |-> utt, measured |-> measured])

Clips(track) == { k \in 1 .. Len(track) : track[k].kind = "clip" }

----------------------------------------------------------------------------
(* translate_long_video_with_optimization: window parameters. *)

\* Seconds; total is prosody_info["duration"] in ms.
SegmentDuration(total) ==
    IF total <= 10 * 60000 THEN 30
    ELSE IF total <= 30 * 60000 THEN 45
    ELSE IF total <= 60 * 60000 THEN 60
    ELSE 90

MaxMemoryGb(total) ==
    IF total <= 10 * 60000 THEN 6
    ELSE IF total <= 30 * 60000 THEN 8
    ELSE IF total <= 60 * 60000 THEN 10
    ELSE 12

\* Variant without the extra window of `+ 1`.
EstimatedSegmentsFloor(total) == total \div (SegmentDuration(total) * 1000)

EstimatedSegments(total) == (total \div (SegmentDuration(total) * 1000)) + 1

\* Window w (0-based), in ms.
StartTime(total, w) == w * SegmentDuration(total) * 1000

EndTime(total, w) == Min((w + 1) * SegmentDuration(total) * 1000, total)

\* seg_start < end_time and seg_end > start_time
Relevant(seg, start_time, end_time) == seg.start < end_time /\ seg.end > start_time

RECURSIVE RelevantSegments(_, _, _)
RelevantSegments(all_segments, start_time, end_time) ==
    IF all_segments = << >> THEN << >>
    ELSE (IF Relevant(all_segments[1], start_time, end_time)
          THEN << all_segments[1] >> ELSE << >>)
         \o RelevantSegments(Tail(all_segments), start_time, end_time)

----------------------------------------------------------------------------
(* The alignment loops.  A loop state is [combined, current_ms, prev].      *)

\* next_start_ms, or -1 for None
NextStartMs(segs, k) == IF k + 1 <= Len(segs) THEN segs[k + 1].start ELSE -1

AvailableGap(seg, next_start_ms) ==
    IF next_start_ms # -1 THEN Max(0, next_start_ms - seg.end) ELSE 0

\* allowed_ms of the chunked loop and of the short-video loop
ChunkedAllowedMs(seg, next_start_ms) ==
    (seg.end - seg.start) + Min(AvailableGap(seg, next_start_ms), MAX_GAP_MS)

ShortAllowedMs(seg, next_start_ms) ==
    (seg.end - seg.start) + AvailableGap(seg, next_start_ms)

\* What became of the short-video loop's call of _stretch_wav_to_duration.
Fitting(seg, next_start_ms, en_duration, fitted, fit_unreadable) ==
    IF en_duration <= ShortAllowedMs(seg, next_start_ms) THEN "unused"
    ELSE IF ~fitted.ok THEN "failed"
    ELSE IF fit_unreadable THEN "unreadable"
    ELSE "fitted"

(* _process_segment_with_correct_timing: translation or synthesis failed. *)

\* Variant that passes over the utterance without a trace.
ChunkedSilenceSkipped(st, seg, k) == st

ChunkedSilence(st, seg, k) ==
    [combined   |-> AppendAudio(st.combined, "silence", seg.end - seg.start, k, 0),
     current_ms |-> seg.end,
     prev       |-> st.prev]

(* _process_segment_with_correct_timing: a clip of en_duration ms was read. *)
ChunkedPlace(st, seg, next_start_ms, en_duration, text, k) ==
    LET ru_duration == seg.end - seg.start
        allowed_ms  == ChunkedAllowedMs(seg, next_start_ms)
    IN
    IF en_duration <= ru_duration
    THEN LET actual_start == seg.start
             padded == IF actual_start > st.current_ms
                       THEN AppendAudio(st.combined, "silence",
                                        actual_start - st.current_ms, k, 0)
                       ELSE st.combined
         IN [combined   |-> AppendAudio(padded, "clip", en_duration, k, en_duration),
             current_ms |-> actual_start + en_duration,
             prev       |-> EndsTerminal(text)]
    ELSE IF en_duration <= allowed_ms
    THEN [combined   |-> AppendAudio(st.combined, "clip", en_duration, k, en_duration),
          current_ms |-> st.current_ms + en_duration,
          prev       |-> EndsTerminal(text)]
    ELSE [combined   |-> AppendAudio(st.combined, "clip", en_duration, k, en_duration),
          current_ms |-> st.current_ms + en_duration,
          prev       |-> EndsTerminal(text)]

(* translate_video_with_voice_preservation: the pause before an utterance. *)
ShortGap(st, seg, k) ==
    IF seg.start > st.current_ms
    THEN LET gap0 == seg.start - st.current_ms
             gap1 == IF st.prev = "open" THEN Min(gap0, CONTINUATION_PAUSE_MS) ELSE gap0
             gap  == Min(gap1, MAX_PAUSE_MS)
         IN [combined   |-> AppendAudio(st.combined, "silence", gap, k, 0),
             current_ms |-> st.current_ms + gap,
             prev       |-> st.prev]
    ELSE st

(* translate_video_with_voice_preservation: a clip of en_duration ms was    *)
(* read; fitted is what _stretch_wav_to_duration returned for it and        *)
(* fit_unreadable says that reading the fitted file raised.                 *)
ShortPlace(st, seg, next_start_ms, en_duration, text, fitted, fit_unreadable, k) ==
    LET ru_duration == seg.end - seg.start
        allowed_ms  == ShortAllowedMs(seg, next_start_ms)
        whole       == AppendAudio(st.combined, "clip", en_duration, k, en_duration)
    IN
    IF en_duration <= ru_duration
    THEN [combined   |-> whole,
          current_ms |-> st.current_ms + en_duration,
          prev       |-> EndsTerminal(text)]
    ELSE IF en_duration <= allowed_ms
    THEN [combined   |-> whole,
          current_ms |-> st.current_ms + en_duration,
          prev       |-> EndsTerminal(text)]
    ELSE IF fitted.ok
    THEN IF fit_unreadable
         THEN [combined   |-> whole,
               current_ms |-> st.current_ms + en_duration,
               prev       |-> EndsTerminal(text)]
         ELSE [combined   |-> AppendAudio(st.combined, "clip", fitted.len, k, en_duration),
               current_ms |-> st.current_ms + allowed_ms,
               prev       |-> EndsTerminal(text)]
    ELSE [combined   |-> whole,
          current_ms |-> seg.start + en_duration,
          prev       |-> EndsTerminal(text)]

LoopState == [combined |-> combined, current_ms |-> current_ms, prev |-> prev_en_terminal]

SetLoop(st) ==
    /\ combined' = st.combined
    /\ current_ms' = st.current_ms
    /\ prev_en_terminal' = st.prev

----------------------------------------------------------------------------
(* Idle values of the parts a specification does not use. *)

FitIdle == [cur |-> 0, target |-> 0, quiet |-> << >>, fail1 |-> "none",
            fail2 |-> FALSE, throws |-> FALSE, done |-> FALSE,
            out |-> [ok |-> FALSE, written |-> FALSE, len |-> 0, same |-> FALSE]]

ProsIdle == [len |-> 0, duration |-> 0, ranges |-> << >>, has_video |-> FALSE,
             probed |-> 0, done |-> FALSE, out |-> 0]

\* A fresh object has neither _ru_en_tokenizer nor _ru_en_model; no call of
\* _translate_text_ru_en is under way. Of the call under way or last made:
\* its text, whether the model was cached when it began, the attempt the
\* loading loop is at, the number of loads attempted, the waits slept, how
\* the last attempt went, and what the call returned (0 stands for none yet).
MtIdle == [has_tokenizer |-> FALSE, has_model |-> FALSE, pc |-> "idle", calls |-> 0,
           text |-> << >>, cached |-> FALSE, attempt |-> 0, loads |-> 0,
           waits |-> << >>, last |-> "none", ret |-> 0]

\* What the collaborators delivered for one utterance of an alignment loop:
\* outcome "skipped" (malformed), "failed" (no translation or no clip) or
\* "placed"; for a placed clip its measured duration, its translated text and
\* what became of the fitting call ("unused", "fitted", "unreadable", "failed").
Delivered(outcome, dur, text, fitting) ==
    [outcome |-> outcome, dur |-> dur, text |-> text, fitting |-> fitting]

\* The caller's keyword arguments; 0 stands for None.
NoArgs == [segment_duration |-> 0, max_memory_gb |-> 0]

HistInit == [extracted |-> FALSE, failed |-> {}, selected |-> {}, synthesized |-> {},
             inputs |-> << >>, args |-> NoArgs, mix_error |-> FALSE]

PipeInit(m) ==
    /\ mode = m
    /\ pc = "extract_audio"
    /\ segments = << >>
    /\ prosody_info = NoProsody
    /\ i = 0
    /\ segment_files = << >>
    /\ relevant_segments = << >>
    /\ idx = 1
    /\ combined = << >>
    /\ current_ms = 0
    /\ prev_en_terminal = "unset"
    /\ translated_len = 0
    /\ final_len = -1
    /\ probed_ms = 0
    /\ mixes = 0
    /\ result = "running"
    /\ hist = HistInit

Return(value) ==
    /\ pc' = "done"
    /\ result' = value

----------------------------------------------------------------------------
(* translate_long_video_with_optimization *)

TotalDuration == prosody_info.duration

\* Step 1: extract_audio_from_video
ExtractAudio ==
    /\ mode = "long" /\ pc = "extract_audio"
    /\ \E ok \in BOOLEAN :
         IF ok
         THEN /\ pc' = "analyze"
              /\ hist' = [hist EXCEPT !.extracted = TRUE]
              /\ UNCHANGED result
         ELSE /\ Return("false")
              /\ UNCHANGED hist
    /\ UNCHANGED << mode, segments, prosody_info, i, segment_files, relevant_segments,
                    idx, combined, current_ms, prev_en_terminal, translated_len,
                    final_len, probed_ms, mixes, fit, pros, mt >>

\* Steps 2 and 3: analyze_audio_prosody (None becomes {}), speaker reference
AnalyzeProsody ==
    /\ mode = "long" /\ pc = "analyze"
    /\ \E info \in ProsodyInfos : prosody_info' = info
    /\ pc' = "transcribe"
    /\ UNCHANGED << mode, segments, i, segment_files, relevant_segments,
                    idx, combined, current_ms, prev_en_terminal, translated_len,
                    final_len, probed_ms, mixes, result, hist, fit, pros, mt >>

\* Whisper's list, or the whole-track fallback when it is empty
Transcribed(list, ru_text, info) ==
    IF list # << >> THEN list
    ELSE IF ru_text # << >>
    THEN << [start |-> 0, end |-> info.duration, text |-> ru_text] >>
    ELSE << >>

\* Steps 4 and 5: _asr_whisper_segments once for the whole track
Transcribe ==
    /\ mode = "long" /\ pc = "transcribe"
    /\ \E list \in UtteranceLists, ru_text \in { << >>, << "r" >> } :
         segments' = Transcribed(list, ru_text, prosody_info)
    /\ pc' = "window"
    /\ i' = 0
    /\ UNCHANGED << mode, prosody_info, segment_files, relevant_segments,
                    idx, combined, current_ms, prev_en_terminal, translated_len,
                    final_len, probed_ms, mixes, result, hist, fit, pros, mt >>

InLoop == i < EstimatedSegments(TotalDuration) /\ StartTime(TotalDuration, i) < TotalDuration

\* Step 6: the for loop ends (range exhausted or start_time >= total_duration)
WindowLoopExit ==
    /\ mode = "long" /\ pc = "window"
    /\ ~InLoop
    /\ pc' = "combine"
    /\ UNCHANGED << mode, segments, prosody_info, i, segment_files, relevant_segments,
                    idx, combined, current_ms, prev_en_terminal, translated_len,
                    final_len, probed_ms, mixes, result, hist, fit, pros, mt >>

\* _extract_audio_segment returned False: the window is skipped
ExtractSegmentFails ==
    /\ mode = "long" /\ pc = "window"
    /\ InLoop
    /\ i' = i + 1
    /\ hist' = [hist EXCEPT !.failed = @ \cup { i }]
    /\ UNCHANGED << mode, pc, segments, prosody_info, segment_files, relevant_segments,
                    idx, combined, current_ms, prev_en_terminal, translated_len,
                    final_len, probed_ms, mixes, result, fit, pros, mt >>

\* Variant that puts the silent window in front of the earlier windows.
ProcessSegmentSilentPrepending ==
    /\ mode = "long" /\ pc = "window"
    /\ InLoop
    /\ RelevantSegments(segments, StartTime(TotalDuration, i), EndTime(TotalDuration, i)) = << >>
    /\ segment_files' = << [win |-> i, len |-> EndTime(TotalDuration, i) - StartTime(TotalDuration, i)] >>
                            \o segment_files
    /\ i' = i + 1
    /\ UNCHANGED << mode, pc, segments, prosody_info, relevant_segments,
                    idx, combined, current_ms, prev_en_terminal, translated_len,
                    final_len, probed_ms, mixes, result, hist, fit, pros, mt >>

\* _process_segment_with_correct_timing: no relevant utterance, silent window
ProcessSegmentSilent ==
    /\ mode = "long" /\ pc = "window"
    /\ InLoop
    /\ RelevantSegments(segments, StartTime(TotalDuration, i), EndTime(TotalDuration, i)) = << >>
    /\ segment_files' = Append(segment_files,
            [win |-> i, len |-> EndTime(TotalDuration, i) - StartTime(TotalDuration, i)])
    /\ i' = i + 1
    /\ UNCHANGED << mode, pc, segments, prosody_info, relevant_segments,
                    idx, combined, current_ms, prev_en_terminal, translated_len,
                    final_len, probed_ms, mixes, result, hist, fit, pros, mt >>

\* Variant whose cursor and punctuation flag survive from the window before.
ProcessSegmentBeginStale ==
    /\ mode = "long" /\ pc = "window"
    /\ InLoop
    /\ LET rel == RelevantSegments(segments, StartTime(TotalDuration, i),
                                   EndTime(TotalDuration, i))
       IN /\ rel # << >>
          /\ relevant_segments' = rel
          /\ hist' = [hist EXCEPT
                        !.selected = @ \cup { [win |-> i, start |-> rel[k].start] :
                                              k \in 1 .. Len(rel) },
                        !.synthesized = {},
                        !.inputs = << >>]
    /\ pc' = "align"
    /\ idx' = 1
    /\ combined' = << >>
    /\ UNCHANGED << mode, segments, prosody_info, i, segment_files, translated_len,
                    current_ms, prev_en_terminal,
                    final_len, probed_ms, mixes, result, fit, pros, mt >>

\* _process_segment_with_correct_timing: the filter found utterances
ProcessSegmentBegin ==
    /\ mode = "long" /\ pc = "window"
    /\ InLoop
    /\ LET rel == RelevantSegments(segments, StartTime(TotalDuration, i),
                                   EndTime(TotalDuration, i))
       IN /\ rel # << >>
          /\ relevant_segments' = rel
          /\ hist' = [hist EXCEPT
                        !.selected = @ \cup { [win |-> i, start |-> rel[k].start] :
                                              k \in 1 .. Len(rel) },
                        !.synthesized = {},
                        !.inputs = << >>]
    /\ pc' = "align"
    /\ idx' = 1
    /\ combined' = << >>
    /\ current_ms' = 0
    /\ prev_en_terminal' = "unset"
    /\ UNCHANGED << mode, segments, prosody_info, i, segment_files, translated_len,
                    final_len, probed_ms, mixes, result, fit, pros, mt >>

AtUtterance ==
    /\ mode = "long" /\ pc = "align"
    /\ idx <= Len(relevant_segments)

\* end_ms <= start_ms or not text_ru: continue
ChunkedSkip ==
    /\ AtUtterance
    /\ Malformed(relevant_segments[idx])
    /\ idx' = idx + 1
    /\ hist' = [hist EXCEPT !.inputs = Append(@, Delivered("skipped", 0, << >>, "unused"))]
    /\ UNCHANGED << mode, pc, segments, prosody_info, i, segment_files, relevant_segments,
                    combined, current_ms, prev_en_terminal, translated_len,
                    final_len, probed_ms, mixes, result, fit, pros, mt >>

\* _translate_text_ru_en returned "", or synthesize_with_voice returned None
ChunkedFailure ==
    /\ AtUtterance
    /\ ~Malformed(relevant_segments[idx])
    /\ SetLoop(ChunkedSilence(LoopState, relevant_segments[idx], idx))
    /\ idx' = idx + 1
    /\ hist' = [hist EXCEPT !.inputs = Append(@, Delivered("failed", 0, << >>, "unused"))]
    /\ UNCHANGED << mode, pc, segments, prosody_info, i, segment_files, relevant_segments,
                    translated_len, final_len, probed_ms, mixes, result, fit, pros, mt >>

\* translation and synthesis succeeded: the clip is aligned
ChunkedAlign ==
    /\ AtUtterance
    /\ ~Malformed(relevant_segments[idx])
    /\ \E text \in Translations \ { << >> }, en_duration \in ClipDurations :
         /\ SetLoop(ChunkedPlace(LoopState, relevant_segments[idx],
                                 NextStartMs(relevant_segments, idx),
                                 en_duration, text, idx))
         /\ hist' = [hist EXCEPT
                       !.synthesized = @ \cup { [utt |-> idx, dur |-> en_duration] },
                       !.inputs = Append(@, Delivered("placed", en_duration, text, "unused"))]
    /\ idx' = idx + 1
    /\ UNCHANGED << mode, pc, segments, prosody_info, i, segment_files, relevant_segments,
                    translated_len, final_len, probed_ms, mixes, result, fit, pros, mt >>

\* Variant that lays the window over the original track before saving it.
FinishWindowMixing ==
    /\ mode = "long" /\ pc = "align"
    /\ idx > Len(relevant_segments)
    /\ IF TrackLen(combined) = 0
       THEN /\ hist' = [hist EXCEPT !.failed = @ \cup { i }]
            /\ UNCHANGED << segment_files, mixes >>
       ELSE /\ segment_files' = Append(segment_files, [win |-> i, len |-> TrackLen(combined)])
            /\ mixes' = mixes + 1
            /\ UNCHANGED hist
    /\ i' = i + 1
    /\ pc' = "window"
    /\ UNCHANGED << mode, segments, prosody_info, relevant_segments,
                    idx, combined, current_ms, prev_en_terminal, translated_len,
                    final_len, probed_ms, result, fit, pros, mt >>

\* after the loop: len(combined) == 0 returns False, else the window is saved
FinishWindow ==
    /\ mode = "long" /\ pc = "align"
    /\ idx > Len(relevant_segments)
    /\ IF TrackLen(combined) = 0
       THEN /\ hist' = [hist EXCEPT !.failed = @ \cup { i }]
            /\ UNCHANGED segment_files
       ELSE /\ segment_files' = Append(segment_files, [win |-> i, len |-> TrackLen(combined)])
            /\ UNCHANGED hist
    /\ i' = i + 1
    /\ pc' = "window"
    /\ UNCHANGED << mode, segments, prosody_info, relevant_segments,
                    idx, combined, current_ms, prev_en_terminal, translated_len,
                    final_len, probed_ms, mixes, result, fit, pros, mt >>

\* _combine_segments_simple
CombinedLen(files) == SumLens(files)

\* `if not segment_files: return False`, then step 7
CombineSegments ==
    /\ mode = "long" /\ pc = "combine"
    /\ IF segment_files = << >> \/ CombinedLen(segment_files) = 0
       THEN /\ Return("false")
            /\ UNCHANGED final_len
       ELSE /\ final_len' = CombinedLen(segment_files)
            /\ pc' = "prosody"
            /\ UNCHANGED result
    /\ UNCHANGED << mode, segments, prosody_info, i, segment_files, relevant_segments,
                    idx, combined, current_ms, prev_en_terminal, translated_len,
                    probed_ms, mixes, hist, fit, pros, mt >>

\* Variant that goes from step 8 straight to the remux.
ApplyProsodyRemuxing ==
    /\ mode = "long" /\ pc = "prosody"
    /\ \E probed \in ProbedDurations :
         /\ probed_ms' = probed
         /\ final_len' = IF prosody_info.ok
                         THEN ApplyProsodyToAudio(final_len, prosody_info.duration,
                                                  prosody_info.nonsilent_ranges, TRUE, probed)
                         ELSE final_len
    /\ pc' = "sync"
    /\ UNCHANGED << mode, segments, prosody_info, i, segment_files, relevant_segments,
                    idx, combined, current_ms, prev_en_terminal, translated_len,
                    mixes, result, hist, fit, pros, mt >>

\* Step 8: _apply_prosody_to_audio with video_path set
ApplyProsody ==
    /\ mode = "long" /\ pc = "prosody"
    /\ \E probed \in ProbedDurations :
         /\ probed_ms' = probed
         /\ final_len' = IF prosody_info.ok
                         THEN ApplyProsodyToAudio(final_len, prosody_info.duration,
                                                  prosody_info.nonsilent_ranges, TRUE, probed)
                         ELSE final_len
    /\ pc' = "mix"
    /\ UNCHANGED << mode, segments, prosody_info, i, segment_files, relevant_segments,
                    idx, combined, current_ms, prev_en_terminal, translated_len,
                    mixes, result, hist, fit, pros, mt >>

\* Variant that leaves the original at its own length under the overlay.
BedLenOfOriginal(orig_len, tts_len) == orig_len

\* the original padded or cut to the length of the translated track
BedLen(orig_len, tts_len) ==
    IF orig_len < tts_len THEN orig_len + (tts_len - orig_len)
    ELSE IF orig_len > tts_len THEN SliceLen(orig_len, 0, tts_len)
    ELSE orig_len

\* Step 9: the bed mix; an exception leaves final_audio_path as it was
BedMix ==
    /\ mode = "long" /\ pc = "mix"
    /\ \E ok \in BOOLEAN, orig_len \in OriginalLens :
         IF ok
         THEN /\ final_len' = BedLen(orig_len, final_len)
              /\ mixes' = mixes + 1
              /\ UNCHANGED hist
         ELSE /\ hist' = [hist EXCEPT !.mix_error = TRUE]
              /\ UNCHANGED << final_len, mixes >>
    /\ pc' = "sync"
    /\ UNCHANGED << mode, segments, prosody_info, i, segment_files, relevant_segments,
                    idx, combined, current_ms, prev_en_terminal, translated_len,
                    probed_ms, result, fit, pros, mt >>

\* Step 10: sync_audio_with_video
SyncVideo ==
    /\ mode = "long" /\ pc = "sync"
    /\ \E ok \in BOOLEAN : Return(IF ok THEN "true" ELSE "false")
    /\ UNCHANGED << mode, segments, prosody_info, i, segment_files, relevant_segments,
                    idx, combined, current_ms, prev_en_terminal, translated_len,
                    final_len, probed_ms, mixes, hist, fit, pros, mt >>

InitLong == PipeInit("long") /\ fit = FitIdle /\ pros = ProsIdle /\ mt = MtIdle

NextLong ==
    \/ ExtractAudio
    \/ AnalyzeProsody
    \/ Transcribe
    \/ WindowLoopExit
    \/ ExtractSegmentFails
    \/ ProcessSegmentSilent
    \/ ProcessSegmentBegin
    \/ ChunkedSkip
    \/ ChunkedFailure
    \/ ChunkedAlign
    \/ FinishWindow
    \/ CombineSegments
    \/ ApplyProsody
    \/ BedMix
    \/ SyncVideo

SpecLong == InitLong /\ [][NextLong]_vars

----------------------------------------------------------------------------
(* translate_video_with_voice_preservation *)

TranslatedLens == { 4000 }

StretchFailures == { "none", "read", "export" }

ShortExtractAudio ==
    /\ mode = "short" /\ pc = "extract_audio"
    /\ \E ok \in BOOLEAN :
         IF ok
         THEN /\ pc' = "analyze"
              /\ hist' = [hist EXCEPT !.extracted = TRUE]
              /\ UNCHANGED result
         ELSE /\ Return("false")
              /\ UNCHANGED hist
    /\ UNCHANGED << mode, segments, prosody_info, i, segment_files, relevant_segments,
                    idx, combined, current_ms, prev_en_terminal, translated_len,
                    final_len, probed_ms, mixes, fit, pros, mt >>

ShortAnalyzeProsody ==
    /\ mode = "short" /\ pc = "analyze"
    /\ \E info \in ProsodyInfos : prosody_info' = info
    /\ pc' = "translate_audio"
    /\ UNCHANGED << mode, segments, i, segment_files, relevant_segments,
                    idx, combined, current_ms, prev_en_terminal, translated_len,
                    final_len, probed_ms, mixes, result, hist, fit, pros, mt >>

\* Step 3: audio_translator.translate_audio; None ends the run
ShortTranslateAudio ==
    /\ mode = "short" /\ pc = "translate_audio"
    /\ \/ /\ Return("false")
          /\ UNCHANGED translated_len
       \/ /\ \E n \in TranslatedLens : translated_len' = n
          /\ pc' = "transcribe"
          /\ UNCHANGED result
    /\ UNCHANGED << mode, segments, prosody_info, i, segment_files, relevant_segments,
                    idx, combined, current_ms, prev_en_terminal,
                    final_len, probed_ms, mixes, hist, fit, pros, mt >>

ShortTranscribe ==
    /\ mode = "short" /\ pc = "transcribe"
    /\ \E list \in UtteranceLists, ru_text \in { << >>, << "r" >> } :
         segments' = Transcribed(list, ru_text, prosody_info)
    /\ pc' = "align"
    /\ idx' = 1
    /\ combined' = << >>
    /\ current_ms' = 0
    /\ UNCHANGED << mode, prosody_info, i, segment_files, relevant_segments,
                    prev_en_terminal, translated_len,
                    final_len, probed_ms, mixes, result, hist, fit, pros, mt >>

ShortAtUtterance ==
    /\ mode = "short" /\ pc = "align"
    /\ idx <= Len(segments)

ShortSkip ==
    /\ ShortAtUtterance
    /\ Malformed(segments[idx])
    /\ idx' = idx + 1
    /\ hist' = [hist EXCEPT !.inputs = Append(@, Delivered("skipped", 0, << >>, "unused"))]
    /\ UNCHANGED << mode, pc, segments, prosody_info, i, segment_files, relevant_segments,
                    combined, current_ms, prev_en_terminal, translated_len,
                    final_len, probed_ms, mixes, result, fit, pros, mt >>

\* the pause is inserted, then translation or synthesis fails: continue
ShortFailure ==
    /\ ShortAtUtterance
    /\ ~Malformed(segments[idx])
    /\ SetLoop(ShortGap(LoopState, segments[idx], idx))
    /\ idx' = idx + 1
    /\ hist' = [hist EXCEPT !.inputs = Append(@, Delivered("failed", 0, << >>, "unused"))]
    /\ UNCHANGED << mode, pc, segments, prosody_info, i, segment_files, relevant_segments,
                    translated_len, final_len, probed_ms, mixes, result, fit, pros, mt >>

\* the pause is inserted, then the synthesized clip is aligned
ShortAlign ==
    /\ ShortAtUtterance
    /\ ~Malformed(segments[idx])
    /\ \E text \in Translations \ { << >> }, en_duration \in ClipDurations,
          fail1 \in StretchFailures, fail2 \in BOOLEAN, fit_unreadable \in BOOLEAN :
         LET seg        == segments[idx]
             next_start == NextStartMs(segments, idx)
             allowed_ms == ShortAllowedMs(seg, next_start)
             fitted     == StretchWavToDuration(en_duration, allowed_ms, << >>,
                                                fail1, fail2, FALSE)
         IN /\ SetLoop(ShortPlace(ShortGap(LoopState, seg, idx), seg, next_start,
                                  en_duration, text, fitted, fit_unreadable, idx))
            /\ hist' = [hist EXCEPT
                          !.synthesized = @ \cup { [utt |-> idx, dur |-> en_duration] },
                          !.inputs = Append(@, Delivered("placed", en_duration, text,
                                 Fitting(seg, next_start, en_duration, fitted, fit_unreadable)))]
    /\ idx' = idx + 1
    /\ UNCHANGED << mode, pc, segments, prosody_info, i, segment_files, relevant_segments,
                    translated_len, final_len, probed_ms, mixes, result, fit, pros, mt >>

\* after the loop: an empty track falls back to the translated audio
ShortFinishLoop ==
    /\ mode = "short" /\ pc = "align"
    /\ idx > Len(segments)
    /\ final_len' = IF TrackLen(combined) = 0 THEN translated_len ELSE TrackLen(combined)
    /\ pc' = "prosody"
    /\ UNCHANGED << mode, segments, prosody_info, i, segment_files, relevant_segments,
                    idx, combined, current_ms, prev_en_terminal, translated_len,
                    probed_ms, mixes, result, hist, fit, pros, mt >>

\* Step 6: only `if prosody_info`
ShortApplyProsody ==
    /\ mode = "short" /\ pc = "prosody"
    /\ \E probed \in ProbedDurations :
         /\ probed_ms' = probed
         /\ final_len' = IF prosody_info.ok
                         THEN ApplyProsodyToAudio(final_len, prosody_info.duration,
                                                  prosody_info.nonsilent_ranges, TRUE, probed)
                         ELSE final_len
    /\ pc' = "mix"
    /\ UNCHANGED << mode, segments, prosody_info, i, segment_files, relevant_segments,
                    idx, combined, current_ms, prev_en_terminal, translated_len,
                    mixes, result, hist, fit, pros, mt >>

\* Step 7: the mix goes to temp_mixed_audio.wav, else the clean track is used
ShortBedMix ==
    /\ mode = "short" /\ pc = "mix"
    /\ \E ok \in BOOLEAN, orig_len \in OriginalLens :
         IF ok
         THEN /\ final_len' = BedLen(orig_len, final_len)
              /\ mixes' = mixes + 1
         ELSE UNCHANGED << final_len, mixes >>
    /\ pc' = "sync"
    /\ UNCHANGED << mode, segments, prosody_info, i, segment_files, relevant_segments,
                    idx, combined, current_ms, prev_en_terminal, translated_len,
                    probed_ms, result, hist, fit, pros, mt >>

ShortSyncVideo ==
    /\ mode = "short" /\ pc = "sync"
    /\ \E ok \in BOOLEAN : Return(IF ok THEN "true" ELSE "false")
    /\ UNCHANGED << mode, segments, prosody_info, i, segment_files, relevant_segments,
                    idx, combined, current_ms, prev_en_terminal, translated_len,
                    final_len, probed_ms, mixes, hist, fit, pros, mt >>

NextShort ==
    \/ ShortExtractAudio
    \/ ShortAnalyzeProsody
    \/ ShortTranslateAudio
    \/ ShortTranscribe
    \/ ShortSkip
    \/ ShortFailure
    \/ ShortAlign
    \/ ShortFinishLoop
    \/ ShortApplyProsody
    \/ ShortBedMix
    \/ ShortSyncVideo

----------------------------------------------------------------------------
(* The pipeline: either entry point is called on a fresh object. *)

Init ==
    /\ PipeInit("long") \/ PipeInit("short")
    /\ fit = FitIdle /\ pros = ProsIdle /\ mt = MtIdle

Next == NextLong \/ NextShort

Spec == Init /\ [][Next]_vars

----------------------------------------------------------------------------
(* The chunk controller of translate_long_video_with_optimization on sources *)
(* of every band: the run has extracted and analysed the audio, Whisper and  *)
(* the fallback found no speech, and every window is extracted.              *)

ChunkDurations ==
    { 20000, 59500, 60000, 600000, 600001, 1800000, 3600000, 5400000, 5700000 }

ArgChoices == { NoArgs, [segment_duration |-> 120, max_memory_gb |-> 4] }

InitChunks ==
    /\ mode = "long"
    /\ pc = "window"
    /\ segments = << >>
    /\ \E d \in ChunkDurations :
         prosody_info = [ok |-> TRUE, duration |-> d, nonsilent_ranges |-> << >>]
    /\ i = 0
    /\ segment_files = << >>
    /\ relevant_segments = << >>
    /\ idx = 1
    /\ combined = << >>
    /\ current_ms = 0
    /\ prev_en_terminal = "unset"
    /\ translated_len = 0
    /\ final_len = -1
    /\ probed_ms = 0
    /\ mixes = 0
    /\ result = "running"
    /\ \E a \in ArgChoices : hist = [HistInit EXCEPT !.extracted = TRUE, !.args = a]
    /\ fit = FitIdle
    /\ pros = ProsIdle
    /\ mt = MtIdle

NextChunks ==
    \/ ProcessSegmentSilent
    \/ WindowLoopExit

SpecChunks == InitChunks /\ [][NextChunks]_vars

----------------------------------------------------------------------------
(* _stretch_wav_to_duration called on its own, on every input of a small set. *)

FitCurs == { 0, 30, 1000 }

FitTargets == { 0, 40, 900, 960, 1000, 1040, 1045, 1050, 1200 }

QuietLists ==
    { << >>,
      << [s |-> 1600, e |-> 3200] >>,
      << [s |-> 100, e |-> 150], [s |-> 400, e |-> 450] >> }

InitFit ==
    /\ PipeInit("fit")
    /\ pros = ProsIdle
    /\ mt = MtIdle
    /\ \E c \in FitCurs, t \in FitTargets, q \in QuietLists,
          f1 \in StretchFailures, f2 \in BOOLEAN, th \in BOOLEAN :
         fit = [FitIdle EXCEPT !.cur = c, !.target = t, !.quiet = q,
                               !.fail1 = f1, !.fail2 = f2, !.throws = th]

FitCall ==
    /\ mode = "fit"
    /\ ~fit.done
    /\ fit' = [fit EXCEPT !.done = TRUE,
                          !.out = StretchWavToDuration(fit.cur, fit.target, fit.quiet,
                                                       fit.fail1, fit.fail2, fit.throws)]
    /\ UNCHANGED << pipeVars, pros, mt >>

SpecFit == InitFit /\ [][FitCall]_vars

----------------------------------------------------------------------------
(* _apply_prosody_to_audio called on its own, on every input of a small set. *)

ProsLens == { 0, 1000, 19980, 20040, 20051, 25000 }

ProsDurations == { 0, 20000 }

ProsProbed == { 0, 19000 }

InitProsody ==
    /\ PipeInit("prosody")
    /\ fit = FitIdle
    /\ mt = MtIdle
    /\ \E n \in ProsLens, d \in ProsDurations, r \in RangeLists,
          v \in BOOLEAN, p \in ProsProbed :
         pros = [ProsIdle EXCEPT !.len = n, !.duration = d, !.ranges = r,
                                 !.has_video = v, !.probed = p]

ProsodyCall ==
    /\ mode = "prosody"
    /\ ~pros.done
    /\ pros' = [pros EXCEPT !.done = TRUE,
                            !.out = ApplyProsodyToAudio(pros.len, pros.duration, pros.ranges,
                                                        pros.has_video, pros.probed)]
    /\ UNCHANGED << pipeVars, fit, mt >>

SpecProsody == InitProsody /\ [][ProsodyCall]_vars

----------------------------------------------------------------------------
(* _translate_text_ru_en called on one object for utterance after utterance. *)

MaxCalls == 3

MAX_RETRIES == 5

SourceTexts == { << >>, << " " >>, << "r" >> }

LoadOutcomes == { "ok", "tokenizer_rate_limit", "model_rate_limit",
                  "tokenizer_error", "model_error" }

\* the variant without the attribute check: every call loads the model
ModelCachedNever(t) == FALSE

\* hasattr(self, '_ru_en_tokenizer') and hasattr(self, '_ru_en_model')
ModelCached(t) == t.has_tokenizer /\ t.has_model

\* wait_time = 2 ** attempt
WaitTime(attempt) == 2 ^ attempt

\* the call returns; the object keeps its attributes
MtReturn(t, value) == [t EXCEPT !.pc = "idle", !.ret = value]

\* A call begins: blank text returns "", a cached model goes on to the
\* translation, else the loading loop starts at attempt 0.
TranslateCall ==
    /\ mode = "translate"
    /\ mt.pc = "idle"
    /\ mt.calls < MaxCalls
    /\ \E text_ru \in SourceTexts :
         LET t == [mt EXCEPT !.calls = @ + 1, !.text = text_ru, !.cached = ModelCached(mt),
                             !.attempt = 0, !.loads = 0, !.waits = << >>,
                             !.last = "none", !.ret = 0]
         IN mt' = IF Strip(text_ru) = << >> THEN MtReturn(t, << >>)
                  ELSE IF ModelCached(mt) THEN [t EXCEPT !.pc = "translate"]
                  ELSE [t EXCEPT !.pc = "load"]
    /\ UNCHANGED << pipeVars, fit, pros >>

\* One pass of `for attempt in range(max_retries)`: the tokenizer and then
\* the model are loaded; a rate-limit failure sleeps and goes to the next
\* attempt (the for-else returns "" after the last one), any other failure
\* returns "".
LoadAttempt ==
    /\ mode = "translate"
    /\ mt.pc = "load"
    /\ \E outcome \in LoadOutcomes :
         LET t == [mt EXCEPT !.loads = @ + 1,
                             !.has_tokenizer = @ \/ outcome \in { "ok", "model_rate_limit", "model_error" },
                             !.has_model = @ \/ outcome = "ok"]
         IN mt' = CASE outcome = "ok" ->
                         [t EXCEPT !.pc = "translate", !.last = "ok"]
                    [] outcome \in { "tokenizer_rate_limit", "model_rate_limit" } ->
                         LET w == [t EXCEPT !.waits = Append(@, WaitTime(mt.attempt)),
                                            !.last = "rate_limit"]
                         IN IF mt.attempt + 1 < MAX_RETRIES
                            THEN [w EXCEPT !.attempt = @ + 1]
                            ELSE MtReturn(w, << >>)
                    [] OTHER ->
                         MtReturn([t EXCEPT !.last = "error"], << >>)
    /\ UNCHANGED << pipeVars, fit, pros >>

\* The translation proper: the stripped output of the model, or "" when
\* anything raises (the outer except).
Generate ==
    /\ mode = "translate"
    /\ mt.pc = "translate"
    /\ \E raises \in BOOLEAN, en \in Translations :
         mt' = MtReturn(mt, IF raises THEN << >> ELSE Strip(en))
    /\ UNCHANGED << pipeVars, fit, pros >>

InitTranslate ==
    /\ PipeInit("translate")
    /\ fit = FitIdle
    /\ pros = ProsIdle
    /\ mt = MtIdle

NextTranslate == TranslateCall \/ LoadAttempt \/ Generate

\* from_pretrained, time.sleep and generate return or raise: a call that is
\* under way takes its next step.
SpecTranslate == InitTranslate /\ [][NextTranslate]_vars /\ WF_vars(LoadAttempt \/ Generate)

----------------------------------------------------------------------------
(* Properties *)

\* The target of the duration lock: the probed video duration if there is
\* one, else the analysed duration of the source track.
LockTarget(duration_ms, probed) == IF probed # 0 THEN probed ELSE duration_ms

\* C1: in both alignment loops the clips lie on the output timeline in
\* utterance order, with non-decreasing onsets, and no two of them overlap.
C1_Monotonic ==
    \A j \in Clips(combined), k \in Clips(combined) :
        j < k => /\ combined[j].utt < combined[k].utt
                 /\ combined[j].onset <= combined[k].onset
                 /\ combined[j].onset + combined[j].len <= combined[k].onset

\* Two clips are on the timeline of a window of the chunked loop, the first
\* of them longer than its utterance.
C1_Witness ==
    /\ mode = "long" /\ pc = "align"
    /\ \E j \in Clips(combined), k \in Clips(combined) :
         /\ j < k
         /\ combined[j].len > relevant_segments[combined[j].utt].end
                              - relevant_segments[combined[j].utt].start

\* C2 as stated: for every target >= 0, 0 included, the track written by
\* _apply_prosody_to_audio is within 50 ms of the target.
C2_LockAnyTarget ==
    pros.done =>
        Abs(pros.out - LockTarget(pros.duration, IF pros.has_video THEN pros.probed ELSE 0)) <= 50

\* C2 amended: for every target > 0, the track written by
\* _apply_prosody_to_audio is within 50 ms of the target.
C2_LockPositiveTarget ==
    (pros.done /\ LockTarget(pros.duration, IF pros.has_video THEN pros.probed ELSE 0) > 0) =>
        Abs(pros.out - LockTarget(pros.duration, IF pros.has_video THEN pros.probed ELSE 0)) <= 50

\* A short track was padded up to a positive target.
C2_Witness ==
    /\ pros.done
    /\ LockTarget(pros.duration, IF pros.has_video THEN pros.probed ELSE 0) > 0
    /\ pros.len < pros.out
    /\ pros.out = LockTarget(pros.duration, IF pros.has_video THEN pros.probed ELSE 0)
    /\ pros.ranges = << >>

C4_OneWindow ==
    /\ \A a \in hist.selected :
         /\ StartTime(TotalDuration, a.win) <= a.start
         /\ a.start < EndTime(TotalDuration, a.win)
    /\ \A a \in hist.selected, b \in hist.selected : a.start = b.start => a.win = b.win

\* Where _combine_segments_simple puts the k-th file it appends.
ActualOnset(k) == CombinedLen(SubSeq(segment_files, 1, k - 1))

LenOfWindow(w) ==
    IF \E k \in 1 .. Len(segment_files) : segment_files[k].win = w
    THEN (CHOOSE r \in { segment_files[k] : k \in 1 .. Len(segment_files) } : r.win = w).len
    ELSE EndTime(TotalDuration, w) - StartTime(TotalDuration, w)

RECURSIVE OnsetWithSilence(_)
OnsetWithSilence(w) == IF w = 0 THEN 0 ELSE OnsetWithSilence(w - 1) + LenOfWindow(w - 1)

\* C5: in the concatenated track a failed window's span is silence of the
\* window's duration, so every later window's audio starts where it would
\* have started had the failed window succeeded.
C5_FailedSpanSilent ==
    (mode = "long" /\ pc \in { "prosody", "mix", "sync", "done" }) =>
        \A k \in 1 .. Len(segment_files) :
            ActualOnset(k) = OnsetWithSilence(segment_files[k].win)

\* C6: a run whose audio was extracted and analysed ends with an output
\* track, whatever failed in the windows.
C6_AlwaysOutput ==
    (mode = "long" /\ pc = "done" /\ hist.extracted /\ prosody_info.duration > 0) =>
        final_len >= 0

FitClean == fit.fail1 = "none" /\ ~fit.throws

\* C7: for a non-empty clip and target >= current the output is within
\* 40 ms of the target, and with no quiet region it is exactly the target.
C7_FitTolerance ==
    (fit.done /\ FitClean /\ fit.cur > 0 /\ fit.target >= fit.cur) =>
        /\ fit.out.written
        /\ Abs(fit.out.len - fit.target) <= 40
        /\ (fit.quiet = << >> /\ fit.target - fit.cur > 40) => fit.out.len = fit.target

\* C8: a clip longer than the target, and a clip within 40 ms of the
\* target, is written out identical to the input.
C8_NeverShrinks ==
    (fit.done /\ FitClean /\ (fit.cur > fit.target \/ Abs(fit.cur - fit.target) <= 40)) =>
        /\ fit.out.written
        /\ fit.out.same
        /\ fit.out.len = fit.cur

\* C9: fitting always reports success, and after an internal failure (an
\* empty clip, an exception in the fitter or in the pause inserter) the
\* original clip is what was written.
C9_FallbackToOriginal ==
    fit.done =>
        /\ fit.out.ok
        /\ fit.out.written
        /\ (fit.cur = 0 \/ fit.fail1 # "none" \/ fit.throws) =>
               (fit.out.same /\ fit.out.len = fit.cur)

Unvoiced == { k \in 1 .. Len(hist.inputs) : hist.inputs[k].outcome = "failed" }

\* The utterances of the running loop whose clip was placed.
Voiced == { k \in 1 .. Len(hist.inputs) : hist.inputs[k].outcome = "placed" }

\* C11: in the chunked window loop an utterance whose translation or
\* synthesis failed contributes exactly ru = end - start ms of silence to the
\* window, every other utterance is placed with its full clip, and the
\* window is saved as a successful one.
C11_FailureSilence ==
    /\ []((mode = "long" /\ pc = "align") =>
            /\ \A k \in Unvoiced :
                 LET own == { j \in 1 .. Len(combined) : combined[j].utt = k } IN
                 /\ Cardinality(own) = 1
                 /\ \A j \in own :
                      /\ combined[j].kind = "silence"
                      /\ combined[j].len = relevant_segments[k].end - relevant_segments[k].start
            /\ \A k \in Voiced :
                 \E j \in Clips(combined) :
                    combined[j].utt = k /\ combined[j].len = hist.inputs[k].dur)
    /\ [][(mode = "long" /\ pc = "align" /\ pc' = "window" /\ Unvoiced # {}) =>
            segment_files' = Append(segment_files, [win |-> i, len |-> TrackLen(combined)])]_vars

\* A window was saved in which one utterance failed and another was placed.
C11_Witness ==
    /\ mode = "long" /\ pc = "window"
    /\ Unvoiced # {} /\ Voiced # {}
    /\ segment_files # << >>
    /\ segment_files[Len(segment_files)] = [win |-> i - 1, len |-> TrackLen(combined)]

\* A step of an alignment loop in which translation or synthesis failed.
FailureStep ==
    /\ pc = "align"
    /\ Len(hist'.inputs) = Len(hist.inputs) + 1
    /\ hist'.inputs[Len(hist'.inputs)].outcome = "failed"

\* C12: in the short-video loop an utterance whose synthesis failed puts
\* ru = end - start ms of silence on the timeline, after the pause that
\* precedes it, and the cursor advances by ru as well.
C12_ShortFailureSilence ==
    [][(mode = "short" /\ FailureStep) =>
         LET seg   == segments[idx]
             ru    == seg.end - seg.start
             after == ShortGap(LoopState, seg, idx)
         IN /\ TrackLen(combined') = TrackLen(after.combined) + ru
            /\ current_ms' = after.current_ms + ru]_vars

\* ceil(a / b) for positive b
CeilDiv(a, b) == (a + b - 1) \div b

\* C13: for T > 0 the window length and the memory ceiling follow the bands
\* (30 s / 6 GB up to 10 min, 45 s / 8 GB up to 30 min, 60 s / 10 GB up to
\* 60 min, 90 s / 12 GB beyond), exactly ceil(T / windowLength) windows are
\* attempted, exact multiples included, and the windows are contiguous from
\* 0 to T.
C13_Windows ==
    LET T == TotalDuration
        w == SegmentDuration(T) * 1000
        n == CeilDiv(T, w)
    IN (mode = "long" /\ pc \in { "window", "combine" } /\ T > 0) =>
        /\ << SegmentDuration(T), MaxMemoryGb(T) >> =
               (IF T <= 600000 THEN << 30, 6 >>
                ELSE IF T <= 1800000 THEN << 45, 8 >>
                ELSE IF T <= 3600000 THEN << 60, 10 >>
                ELSE << 90, 12 >>)
        /\ i <= n
        /\ pc = "combine" => i = n
        /\ Len(segment_files) = i
        /\ \A k \in 1 .. i :
             /\ segment_files[k].win = k - 1
             /\ segment_files[k].len = EndTime(T, k - 1) - StartTime(T, k - 1)
             /\ StartTime(T, k - 1) = (IF k = 1 THEN 0 ELSE EndTime(T, k - 2))
             /\ StartTime(T, k - 1) < EndTime(T, k - 1)
             /\ EndTime(T, k - 1) = (IF k = n THEN T ELSE k * w)

\* The window loop of a source longer than an hour, whose duration is an
\* exact multiple of the window length, has ended.
C13_Witness ==
    /\ mode = "long" /\ pc = "combine"
    /\ TotalDuration > 3600000
    /\ TotalDuration % (SegmentDuration(TotalDuration) * 1000) = 0
    /\ Len(segment_files) = TotalDuration \div (SegmentDuration(TotalDuration) * 1000)

\* C14 as stated: a run of translate_long_video_with_optimization that
\* returns True has performed the bed mix exactly once.
C14_MixExactlyOnce ==
    (mode = "long" /\ result = "true") => mixes = 1

\* C14 amended: the bed mix is performed at most once and never before the
\* windows are concatenated and the duration is locked, so no window output
\* contains the original; past step 9 it has been performed exactly once
\* unless the mixing itself raised.
C14_MixAtMostOnce ==
    mode = "long" =>
        /\ mixes <= 1
        /\ pc \in { "extract_audio", "analyze", "transcribe", "window", "align",
                     "combine", "prosody", "mix" } => mixes = 0
        /\ (pc = "sync" \/ result = "true") => (mixes = 1) # hist.mix_error

\* A run over several windows returned True with the bed mixed in.
C14_Witness ==
    /\ mode = "long" /\ result = "true"
    /\ mixes = 1
    /\ Len(segment_files) > 1
    /\ hist.synthesized # {}

\* C15: with an empty utterance list every window contributes silence of
\* its own duration, no clip is placed, and the track handed to the bed mix
\* has the length of the target duration.
C15_EmptyListSilence ==
    LET T == TotalDuration
        n == CeilDiv(T, SegmentDuration(T) * 1000)
    IN (mode = "long" /\ hist.extracted /\ segments = << >> /\ T > 0
        /\ pc \in { "combine", "prosody", "mix", "sync", "done" }) =>
        /\ hist.synthesized = {}
        /\ Len(segment_files) = n
        /\ \A k \in 1 .. Len(segment_files) :
             segment_files[k].len = EndTime(T, k - 1) - StartTime(T, k - 1)
        /\ pc = "mix" => final_len = LockTarget(T, probed_ms)
        /\ pc = "done" => final_len >= 0

\* The state in which a call starts its alignment loop.
FreshLoop == [combined |-> << >>, current_ms |-> 0, prev |-> "unset"]

\* The chunked loop run from a fresh state over the first k utterances of
\* segs with the texts and clips of ins.
RECURSIVE ReplayChunked(_, _, _)
ReplayChunked(segs, ins, k) ==
    IF k = 0 THEN FreshLoop
    ELSE LET st == ReplayChunked(segs, ins, k - 1) IN
         CASE ins[k].outcome = "skipped" -> st
           [] ins[k].outcome = "failed" -> ChunkedSilence(st, segs[k], k)
           [] OTHER -> ChunkedPlace(st, segs[k], NextStartMs(segs, k),
                                    ins[k].dur, ins[k].text, k)

\* The same for the short-video loop.
RECURSIVE ReplayShort(_, _, _)
ReplayShort(segs, ins, k) ==
    IF k = 0 THEN FreshLoop
    ELSE LET st == ReplayShort(segs, ins, k - 1)
             next_start == NextStartMs(segs, k)
             fitted == IF ins[k].fitting = "failed"
                       THEN [ok |-> FALSE, written |-> FALSE, len |-> 0, same |-> FALSE]
                       ELSE StretchWavToDuration(ins[k].dur, ShortAllowedMs(segs[k], next_start),
                                                 << >>, "none", FALSE, FALSE)
         IN
         CASE ins[k].outcome = "skipped" -> st
           [] ins[k].outcome = "failed" -> ShortGap(st, segs[k], k)
           [] OTHER -> ShortPlace(ShortGap(st, segs[k], k), segs[k], next_start,
                                  ins[k].dur, ins[k].text, fitted,
                                  ins[k].fitting = "unreadable", k)

C17_CallerWindow ==
    LET T == TotalDuration
        asked == IF hist.args.segment_duration # 0 THEN hist.args.segment_duration ELSE 60
    IN (mode = "long" /\ pc \in { "window", "combine" } /\ T > 0) =>
        /\ SegmentDuration(T) = asked
        /\ hist.args.max_memory_gb # 0 => MaxMemoryGb(T) = hist.args.max_memory_gb
        /\ \A k \in 1 .. Len(segment_files) :
             segment_files[k].len = Min(k * asked * 1000, T) - (k - 1) * asked * 1000

\* A step of an alignment loop in which a clip was put on the timeline.
PlacingStep ==
    /\ pc = "align"
    /\ Len(hist'.inputs) = Len(hist.inputs) + 1
    /\ hist'.inputs[Len(hist'.inputs)].outcome = "placed"

\* The utterance the loop is at, and its start on the loop's own timeline:
\* relative to the window in the chunked loop.
Utterance == IF mode = "long" THEN relevant_segments[idx] ELSE segments[idx]

MappedStart ==
    IF mode = "long" THEN Utterance.start - StartTime(TotalDuration, i) ELSE Utterance.start

\* The silence a placing step puts in front of its clip.
InsertedGap == combined'[Len(combined')].onset - TrackLen(combined)

\* C18: when the start of the utterance is ahead of the cursor, the silence
\* inserted before its clip is min(start - cursor, 2000 ms), whatever the
\* length of the clip (the 120 ms cap after an unterminated sentence is a
\* rule of its own and is left out here).
C18_GapRule ==
    [][(PlacingStep /\ MappedStart > current_ms /\ prev_en_terminal # "open") =>
         InsertedGap = Min(MappedStart - current_ms, MAX_PAUSE_MS)]_vars

\* C19: after a translated text that does not end in . ? ! ... or : the
\* silence inserted before the next clip is at most 120 ms; after one that
\* does, and before the first clip of a loop, it is min(start - cursor,
\* 2000 ms).
C19_ContinuationCap ==
    [][PlacingStep =>
         /\ prev_en_terminal = "open" => InsertedGap <= CONTINUATION_PAUSE_MS
         /\ (prev_en_terminal # "open" /\ MappedStart > current_ms) =>
                InsertedGap = Min(MappedStart - current_ms, MAX_PAUSE_MS)]_vars

\* The window the loop at hand grants a clip of the utterance it is at.
AllowedMs ==
    IF mode = "long"
    THEN ChunkedAllowedMs(Utterance, NextStartMs(relevant_segments, idx))
    ELSE ShortAllowedMs(Utterance, NextStartMs(segments, idx))

\* C20: in every branch the clip is put on the timeline whole and the
\* cursor advances, past the inserted silence, by exactly the measured
\* duration D of the clip; and a clip longer than its utterance is taken as
\* fitting the following gap only up to ru + min(gap, 400 ms).
C20_AdvanceByClip ==
    [][PlacingStep =>
         LET D   == hist'.inputs[Len(hist'.inputs)].dur
             ru  == Utterance.end - Utterance.start
             gap == AvailableGap(Utterance,
                                 IF mode = "long" THEN NextStartMs(relevant_segments, idx)
                                 ELSE NextStartMs(segments, idx))
         IN /\ combined'[Len(combined')].len = D
            /\ current_ms' = current_ms + InsertedGap + D
            /\ D > ru => AllowedMs = ru + Min(gap, MAX_GAP_MS)]_vars

\* The utterance list the running loop works on.
LoopList == IF mode = "long" THEN relevant_segments ELSE segments

\* What a track holds, without the utterance numbering: kind, onset, length.
Placements(track) ==
    [k \in 1 .. Len(track) |->
        [kind |-> track[k].kind, onset |-> track[k].onset, len |-> track[k].len]]

\* Scenario A has been run: utterances (0, 2) and (3, 5), clips of 1500 ms
\* and 3000 ms, the first translation ending in terminal punctuation, and no
\* file error in the fitting.
ScenarioA ==
    /\ pc = "align"
    /\ Len(LoopList) = 2 /\ idx = 3
    /\ << LoopList[1].start, LoopList[1].end >> = << 0, 2000 >>
    /\ << LoopList[2].start, LoopList[2].end >> = << 3000, 5000 >>
    /\ hist.inputs[1].outcome = "placed" /\ hist.inputs[1].dur = 1500
    /\ EndsTerminal(hist.inputs[1].text) = "terminal"
    /\ hist.inputs[2].outcome = "placed" /\ hist.inputs[2].dur = 3000
    /\ hist.inputs[2].fitting \in { "unused", "fitted" }

\* C21: on Scenario A both loops put the first clip at 0, a gap of 1500 ms
\* after it, the second clip whole at 3000, and leave the cursor at 6000.
C21_ScenarioA ==
    ScenarioA =>
        /\ Placements(combined) =
              << [kind |-> "clip",    onset |-> 0,    len |-> 1500],
                 [kind |-> "silence", onset |-> 1500, len |-> 1500],
                 [kind |-> "clip",    onset |-> 3000, len |-> 3000] >>
        /\ current_ms = 6000

\* The elements of seq whose index is in S, in order.
RECURSIVE SelFrom(_, _, _)
SelFrom(seq, S, k) ==
    IF k > Len(seq) THEN << >>
    ELSE (IF k \in S THEN << seq[k] >> ELSE << >>) \o SelFrom(seq, S, k + 1)

\* The loop at hand replayed from scratch.
Replay(segs, ins, k) ==
    IF mode = "long" THEN ReplayChunked(segs, ins, k) ELSE ReplayShort(segs, ins, k)

\* C22: an utterance with blank text or end <= start leaves the timeline
\* and the cursor as they are, gets no translation and no clip, and the
\* other utterances are placed as the same loop places them on the list
\* without it.
C22_SkipIsAbsence ==
    /\ [](pc = "align" =>
            LET kept == { k \in 1 .. Len(LoopList) : ~Malformed(LoopList[k]) }
                segs == SelFrom(LoopList, kept, 1)
                ins  == SelFrom(hist.inputs, kept, 1)
            IN /\ \A k \in 1 .. Len(hist.inputs) :
                    Malformed(LoopList[k]) =>
                        /\ hist.inputs[k].outcome = "skipped"
                        /\ \A j \in 1 .. Len(combined) : combined[j].utt # k
               /\ Placements(combined) = Placements(Replay(segs, ins, Len(ins)).combined))
    /\ [][(pc = "align" /\ pc' = "align" /\ Malformed(LoopList[idx])) =>
            UNCHANGED << combined, current_ms, prev_en_terminal >>]_vars

\* No utterance selected for window w can be placed: none is selected, or
\* every selected one is malformed.
ZeroPlaceable(w) ==
    LET rel == RelevantSegments(segments, StartTime(TotalDuration, w), EndTime(TotalDuration, w))
    IN \A k \in 1 .. Len(rel) : Malformed(rel[k])

\* C23: a window with no placeable utterance whose audio was extracted is
\* saved as a successful window of pure silence of the window's duration.
C23_SilentWindow ==
    [][(mode = "long" /\ i' = i + 1 /\ ZeroPlaceable(i)
        /\ ~(pc = "window" /\ i \in hist'.failed)) =>
         segment_files' = Append(segment_files,
                                 [win |-> i,
                                  len |-> EndTime(TotalDuration, i) - StartTime(TotalDuration, i)])]_vars

\* The phases of a run of translate_long_video_with_optimization, in the
\* order of its steps: Extracting (steps 1-5), Aligning (the window loop of
\* step 6), Assembling (step 7, the window outputs become one track),
\* Combining (step 8, that track with the silence map and the duration
\* lock), Mixing (step 9) and Done (step 10, the remux, and the return).
PhaseOf(p) ==
    CASE p \in { "extract_audio", "analyze", "transcribe" } -> 1
      [] p \in { "window", "align" } -> 2
      [] p = "combine" -> 3
      [] p = "prosody" -> 4
      [] p = "mix" -> 5
      [] OTHER -> 6

C25_AppendOnly ==
    /\ [](mode = "long" =>
            \A j, k \in 1 .. Len(segment_files) :
                j < k => segment_files[j].win < segment_files[k].win)
    /\ [][mode = "long" =>
            /\ PhaseOf(pc) >= 2 => segments' = segments
            /\ PhaseOf(pc) >= 2 => i' \in { i, i + 1 }
            /\ \/ segment_files' = segment_files
               \/ /\ Len(segment_files') = Len(segment_files) + 1
                  /\ SubSeq(segment_files', 1, Len(segment_files)) = segment_files
                  /\ segment_files'[Len(segment_files')].win = i
                  /\ i' = i + 1
            /\ pc = "combine" /\ pc' = "prosody" => final_len' = CombinedLen(segment_files)]_vars

\* The second window of a run has been appended behind the first, and
\* the two have been concatenated.
C25_Witness ==
    /\ mode = "long" /\ pc = "prosody"
    /\ Len(segment_files) = 2
    /\ segment_files[1].win = 0 /\ segment_files[2].win = 1
    /\ final_len = segment_files[1].len + segment_files[2].len
    /\ Len(segments) > 0

\* C26: the bed mix leaves the length of the assembled track as it is,
\* whether the original is shorter than, as long as or longer than the
\* track; a failed mix leaves the track untouched; and in either case
\* the run goes on to the remux. This holds in both pipelines.
C26_MixKeepsLength ==
    [][pc = "mix" =>
         /\ final_len' = final_len
         /\ pc' = "sync"
         /\ result' = result
         /\ mixes' \in { mixes, mixes + 1 }
         /\ \A orig_len \in OriginalLens : BedLen(orig_len, final_len) = final_len]_vars

\* A track whose length differs from that of every original has been mixed
\* with the bed and is about to be remuxed.
C26_Witness ==
    /\ pc = "sync" /\ mixes = 1
    /\ final_len > 0
    /\ \E a, b \in OriginalLens : a < final_len /\ final_len < b

\* The waits of a loading loop that was rate-limited n times: 1, 2, 4, ...
ExpectedWaits(n) == [k \in 1 .. n |-> 2 ^ (k - 1)]

\* C27: a call of _translate_text_ru_en attempts at most 5 loads and comes
\* to an end; after a rate-limit failure it has slept 2^attempt seconds
\* (1, 2, 4, 8, 16 in turn) and tries again unless that was the fifth
\* attempt; after any other failure it has returned at once; in both cases
\* what it returns is the empty string; and a call that begins with the
\* model loaded attempts no load.
C27_BoundedLoading ==
    /\ [](mode = "translate" =>
            /\ mt.loads <= MAX_RETRIES
            /\ mt.pc = "load" => mt.loads < MAX_RETRIES
            /\ Len(mt.waits) <= mt.loads
            /\ mt.waits = ExpectedWaits(Len(mt.waits))
            /\ mt.last = "rate_limit" =>
                   /\ Len(mt.waits) = mt.loads
                   /\ mt.loads < MAX_RETRIES => mt.pc = "load"
                   /\ mt.loads = MAX_RETRIES => (mt.pc = "idle" /\ mt.ret = << >>)
            /\ mt.last = "error" => (mt.pc = "idle" /\ mt.ret = << >>)
            /\ mt.cached => (mt.loads = 0 /\ mt.has_tokenizer /\ mt.has_model)
            /\ (mt.pc = "idle" /\ mt.calls > 0) => mt.ret \in Seq({ "a", "." }))
    /\ [][mode = "translate" =>
            /\ (mt.has_tokenizer /\ mt.has_model) =>
                   (mt'.has_tokenizer /\ mt'.has_model /\ mt'.pc # "load")
            /\ (mt.pc = "load" /\ mt'.last = "error") => mt'.loads = mt.loads + 1]_vars
    /\ (mode = "translate" /\ mt.pc # "idle") ~> (mt.pc = "idle")

\* A call was rate-limited five times and gave up; an earlier call on the
\* same object had not loaded the model either.
C27_Witness ==
    /\ mode = "translate" /\ mt.pc = "idle"
    /\ mt.calls > 1
    /\ mt.waits = << 1, 2, 4, 8, 16 >>
    /\ mt.ret = << >>

\* C28: in the chunked loop the cursor equals the length of the audio
\* accumulated so far in the window's output after every iteration,
\* whichever branch it took, and the cursor never decreases.
C28_CursorIsLength ==
    /\ []((mode = "long" /\ pc = "align") => current_ms = TrackLen(combined))
    /\ [][(mode = "long" /\ pc = "align" /\ pc' = "align") => current_ms' >= current_ms]_vars

\* A window of the chunked loop that does not start at 0 has been aligned
\* to its end; every utterance of it lies inside the window and was given
\* a clip no longer than the utterance.
FittingWindow ==
    /\ mode = "long" /\ pc = "align"
    /\ StartTime(TotalDuration, i) > 0
    /\ idx > Len(relevant_segments)
    /\ Len(hist.inputs) = Len(relevant_segments)
    /\ \A k \in 1 .. Len(relevant_segments) :
         /\ relevant_segments[k].start >= StartTime(TotalDuration, i)
         /\ relevant_segments[k].end <= EndTime(TotalDuration, i)
         /\ hist.inputs[k].outcome = "placed"
         /\ hist.inputs[k].dur <= relevant_segments[k].end - relevant_segments[k].start

\* C29: in the chunked loop the timestamps count from the start of the
\* window: the silence in front of the first clip of such a window is at
\* most the distance of its utterance from the window's start, and the
\* window's output is no longer than the window.
C29_WindowRelative ==
    FittingWindow =>
        /\ \A k \in Clips(combined) :
              combined[k].utt = 1 =>
                  combined[k].onset <= relevant_segments[1].start - StartTime(TotalDuration, i)
        /\ TrackLen(combined) <= EndTime(TotalDuration, i) - StartTime(TotalDuration, i)

\* C30: for a recording of a single window starting at 0, the chunked loop
\* puts the same silences and clips on its timeline as the short-video loop
\* does for the same utterances, translated texts and clip durations (every
\* translation and synthesis having succeeded).
C30_SingleWindowAsShort ==
    ( /\ mode = "long" /\ pc = "align"
      /\ EstimatedSegments(TotalDuration) = 1
      /\ StartTime(TotalDuration, i) = 0
      /\ relevant_segments = segments
      /\ Len(hist.inputs) = idx - 1
      /\ \A k \in 1 .. Len(hist.inputs) : hist.inputs[k].outcome # "failed" ) =>
        Placements(combined) = Placements(ReplayShort(segments, hist.inputs, idx - 1).combined)

====
